---- MODULE Spec2Model ----
(***************************************************************************)
(* Model of the HTTP/2 frame codec of shgang97/http2 (frame.go,            *)
(* constants.go): the 9-byte frame header codec and the Serialize / Parse  *)
(* pair of every frame variant.                                            *)
(*                                                                         *)
(* Representation of Go values:                                            *)
(*   - a []byte is a record [pre, zeros]: the bytes of pre followed by     *)
(*     `zeros` bytes of value 0, with pre never ending in a 0 byte.  This  *)
(*     keeps slices of 16 MiB (the 24-bit length ceiling) representable,   *)
(*     since make() yields zero bytes and padding is left zero;            *)
(*   - a uint32 whose top bit matters is a record [t, v]: value            *)
(*     t * 2^31 + v (TLC integers stop at 2^31 - 1);                       *)
(*   - FrameHeader.Length, lengths and offsets are integers below 2^31.    *)
(***************************************************************************)
EXTENDS FiniteSets, Integers, Naturals, Sequences, TLC

VARIABLES pc, kind, frame, out, hdr, payload, spare, res, alias

vars == <<pc, kind, frame, out, hdr, payload, spare, res, alias>>

(* ------------------------------ bounds --------------------------------- *)
\* longest explicitly enumerated byte string (header block, data, debug data)
MaxLen == 2
\* longest explicitly enumerated settings list
MaxSettings == 1

(* -------------------------- constants.go ------------------------------- *)
FrameData == 0
FrameHeaders == 1
FrameRSTStream == 3
FrameSettings == 4
FramePing == 6
FrameGoWay == 7
FrameWindowUpdate == 8
FlagPadded == 8
FlagPriority == 32
\* 0xFFFFFF, the 24-bit payload length ceiling
MaxU24 == 16777215
\* 0x7FFFFFFF, the low 31 bits of a uint32
Low31 == 2147483647

(* ------------------------------ uint32 --------------------------------- *)
\* a uint32 is [t |-> top bit, v |-> low 31 bits]
U32(t, v) == [t |-> t, v |-> v]
Zero32 == U32(0, 0)
\* x & 0x7FFFFFFF
Mask31(x) == U32(0, x.v)
\* x | 0x80000000
OrTopBit(x) == U32(1, x.v)
\* x | 0x7FFFFFFF
OrLow31(x) == U32(x.t, Low31)
\* x & 0x80000000 != 0
TopBitSet(x) == x.t = 1
\* binary.BigEndian.PutUint32: the 4 bytes of x, most significant first
PutUint32(x) ==
    << x.t * 128 + (x.v \div 16777216),
       (x.v \div 65536) % 256,
       (x.v \div 256) % 256,
       x.v % 256 >>
\* binary.BigEndian.Uint32 of the 4 bytes b
Uint32(b) ==
    U32(b[1] \div 128,
        (b[1] % 128) * 16777216 + b[2] * 65536 + b[3] * 256 + b[4])
\* binary.BigEndian.PutUint16 / Uint16
PutUint16(x) == << (x \div 256) % 256, x % 256 >>
Uint16(b) == b[1] * 256 + b[2]

(* ------------------------------ []byte --------------------------------- *)
Min(a, b) == IF a < b THEN a ELSE b
Max(a, b) == IF a > b THEN a ELSE b

RECURSIVE TrailingZeros(_)
TrailingZeros(s) ==
    IF s = <<>> \/ s[Len(s)] # 0 THEN 0
    ELSE 1 + TrailingZeros(SubSeq(s, 1, Len(s) - 1))

RECURSIVE ZeroSeq(_)
ZeroSeq(n) == IF n = 0 THEN <<>> ELSE <<0>> \o ZeroSeq(n - 1)

\* canonical form: trailing zero bytes of pre are counted in zeros
Norm(pre, zeros) ==
    LET k == TrailingZeros(pre)
    IN [pre |-> SubSeq(pre, 1, Len(pre) - k), zeros |-> zeros + k]

\* the slice holding exactly the bytes of the sequence s
Bs(s) == Norm(s, 0)
\* make([]byte, n)
Make(n) == [pre |-> <<>>, zeros |-> n]
\* len(b)
BLen(b) == Len(b.pre) + b.zeros
\* b[i], 0-based, for 0 <= i < len(b)
BAt(b, i) == IF i < Len(b.pre) THEN b.pre[i + 1] ELSE 0
\* b[lo:hi], for 0 <= lo <= hi <= len(b)
BSlice(b, lo, hi) ==
    Norm(SubSeq(b.pre, lo + 1, Min(hi, Len(b.pre))),
         IF hi > Len(b.pre) THEN hi - Max(lo, Len(b.pre)) ELSE 0)
\* the bytes of a followed by the bytes of b
BCat(a, b) ==
    IF b.pre = <<>> THEN [pre |-> a.pre, zeros |-> a.zeros + b.zeros]
    ELSE [pre |-> a.pre \o ZeroSeq(a.zeros) \o b.pre, zeros |-> b.zeros]
\* the explicit bytes b[lo], ..., b[hi-1] as a sequence (few bytes only)
RECURSIVE BSeq(_, _, _)
BSeq(b, lo, hi) ==
    IF lo >= hi THEN <<>> ELSE <<BAt(b, lo)>> \o BSeq(b, lo + 1, hi)
\* copy(dst[off:], src): overwrites min(len(src), len(dst)-off) bytes
Copy(dst, off, src) ==
    LET n == Min(BLen(src), BLen(dst) - off)
    IN BCat(BCat(BSlice(dst, 0, off), BSlice(src, 0, n)),
            BSlice(dst, off + n, BLen(dst)))

(* --------------------------- call outcomes ----------------------------- *)
\* return nil, err
Err == [status |-> "err"]
\* the call does not return: runtime panic (index or slice bound out of range)
Panic == [status |-> "panic"]
\* Serialize returned (frame, nil); f is the receiver after the call
Ok(bytes, f) == [status |-> "ok", bytes |-> bytes, f |-> f]
\* a parser returned (frame, nil)
Parsed(f) == [status |-> "ok", frame |-> f]
None == [status |-> "none"]

(* --------------------------- FrameHeader ------------------------------- *)
FrameHeader(length, type, flags, streamID) ==
    [Length |-> length, Type |-> type, Flags |-> flags, StreamID |-> streamID]

\* FrameHeader.Serialize with the stream id written unmasked: the reserved
\* bit of the caller's value reaches the wire
FrameHeaderSerialize_KeepReserved(h) ==
    << (h.Length \div 65536) % 256,
       (h.Length \div 256) % 256,
       h.Length % 256,
       h.Type,
       h.Flags >> \o PutUint32(h.StreamID)

FrameHeaderSerialize(h) ==
    << (h.Length \div 65536) % 256,
       (h.Length \div 256) % 256,
       h.Length % 256,
       h.Type,
       h.Flags >> \o PutUint32(Mask31(h.StreamID))

ParseFrameHeader(data) ==
    IF BLen(data) < 9 THEN Err
    ELSE Parsed(FrameHeader(
            BAt(data, 0) * 65536 + BAt(data, 1) * 256 + BAt(data, 2),
            BAt(data, 3),
            BAt(data, 4),
            Mask31(Uint32(BSeq(data, 5, 9)))))

hasPad(flags) == (flags \div FlagPadded) % 2 # 0
hasPriority(flags) == (flags \div FlagPriority) % 2 # 0

(* ---------------------------- HeadersFrame ----------------------------- *)
HeadersSerialize(f) ==
    IF f.H.StreamID = Zero32 THEN Err
    ELSE
    LET len0 == BLen(f.HeaderBlock)
        len1 == IF hasPad(f.H.Flags) THEN 1 + f.PadLen ELSE len0
        padErr == hasPad(f.H.Flags) /\ f.PadLen > 255
        payloadLength == IF hasPriority(f.H.Flags) THEN len1 + 5 ELSE len1
    IN
    IF padErr THEN Err
    ELSE IF payloadLength > MaxU24 THEN Err
    ELSE
    LET g == [f EXCEPT !.H.Length = payloadLength]
        header == FrameHeaderSerialize(g.H)
        frame0 == Copy(Make(Len(header) + payloadLength), 0, Bs(header))
        off0 == Len(header)
        frame1 == IF hasPad(f.H.Flags)
                  THEN Copy(frame0, off0, Bs(<<f.PadLen>>)) ELSE frame0
        off1 == IF hasPad(f.H.Flags) THEN off0 + 1 ELSE off0
        dep == IF f.Exclusive THEN OrTopBit(f.StreamDependency)
               ELSE OrLow31(f.StreamDependency)
        frame2 == IF hasPriority(f.H.Flags)
                  THEN Copy(Copy(frame1, off1, Bs(PutUint32(dep))),
                            off1 + 4, Bs(<<f.Weight>>))
                  ELSE frame1
        off2 == IF hasPriority(f.H.Flags) THEN off1 + 5 ELSE off1
    IN Ok(Copy(frame2, off2, f.HeaderBlock), g)

\* ParseHeadersFrame with the pad length left out of the header block
\* length: the padding is returned as content
ParseHeadersFrame_KeepPadding(header, p) ==
    LET padded == hasPad(header.Flags)
        prio == hasPriority(header.Flags)
        off1 == IF padded THEN 1 ELSE 0
    IN
    IF padded /\ BLen(p) < 1 THEN Err
    ELSE IF prio /\ BLen(p) < off1 + 5 THEN Err
    ELSE
    LET PadLen == IF padded THEN BAt(p, 0) ELSE 0
        dep == IF prio THEN Uint32(BSeq(p, off1, off1 + 4)) ELSE Zero32
        off2 == IF prio THEN off1 + 5 ELSE off1
        headerBlockLength == BLen(p) - off2
    IN
    IF headerBlockLength < 0 THEN Err
    ELSE Parsed([H |-> header,
                 PadLen |-> PadLen,
                 Exclusive |-> prio /\ TopBitSet(dep),
                 StreamDependency |-> Mask31(dep),
                 Weight |-> IF prio THEN BAt(p, off1 + 4) ELSE 0,
                 HeaderBlock |-> BSlice(p, off2, off2 + headerBlockLength)])

ParseHeadersFrame(header, p) ==
    LET padded == hasPad(header.Flags)
        prio == hasPriority(header.Flags)
        off1 == IF padded THEN 1 ELSE 0
    IN
    IF padded /\ BLen(p) < 1 THEN Err
    ELSE IF prio /\ BLen(p) < off1 + 5 THEN Err
    ELSE
    LET PadLen == IF padded THEN BAt(p, 0) ELSE 0
        dep == IF prio THEN Uint32(BSeq(p, off1, off1 + 4)) ELSE Zero32
        off2 == IF prio THEN off1 + 5 ELSE off1
        headerBlockLength == BLen(p) - off2 - PadLen
    IN
    IF headerBlockLength < 0 THEN Err
    ELSE Parsed([H |-> header,
                 PadLen |-> PadLen,
                 Exclusive |-> prio /\ TopBitSet(dep),
                 StreamDependency |-> Mask31(dep),
                 Weight |-> IF prio THEN BAt(p, off1 + 4) ELSE 0,
                 HeaderBlock |-> BSlice(p, off2, off2 + headerBlockLength)])

(* ----------------------------- DataFrame ------------------------------- *)
DataSerialize(f) ==
    IF f.H.StreamID = Zero32 THEN Err
    ELSE
    LET padded == hasPad(f.H.Flags)
        payloadLength == IF padded THEN 1 + BLen(f.Data) + f.PadLen
                         ELSE BLen(f.Data)
    IN
    IF padded /\ f.PadLen > 255 THEN Err
    ELSE IF payloadLength > MaxU24 THEN Err
    ELSE
    LET g == [f EXCEPT !.H.Length = payloadLength]
        header == FrameHeaderSerialize(g.H)
        off0 == Len(header)
        frame0 == Copy(Make(off0 + payloadLength), 0, Bs(header))
        frame1 == IF padded THEN Copy(frame0, off0, Bs(<<f.PadLen>>))
                  ELSE frame0
        off1 == IF padded THEN off0 + 1 ELSE off0
    IN Ok(Copy(frame1, off1, f.Data), g)

ParseDataFrame(header, p) ==
    IF header.Type # FrameData THEN Err
    ELSE
    LET padded == hasPad(header.Flags)
    IN
    IF padded /\ BLen(p) < 1 THEN Err
    ELSE
    LET PadLen == IF padded THEN BAt(p, 0) ELSE 0
        offset == IF padded THEN 1 ELSE 0
        dataLength == BLen(p) - offset - PadLen
    IN
    IF padded /\ PadLen > BLen(p) - offset THEN Err
    ELSE IF dataLength < 0 THEN Err
    ELSE Parsed([H |-> header,
                 PadLen |-> PadLen,
                 Data |-> BSlice(p, offset, offset + dataLength)])

(* --------------------------- SettingsFrame ----------------------------- *)
\* A []Setting is [pre, zeros]: the settings of pre followed by `zeros`
\* settings {ID: 0, Value: 0}, with pre never ending in such a setting.
Setting(id, value) == [ID |-> id, Value |-> value]
ZeroSetting == Setting(0, Zero32)

RECURSIVE TrailingZeroSettings(_)
TrailingZeroSettings(s) ==
    IF s = <<>> \/ s[Len(s)] # ZeroSetting THEN 0
    ELSE 1 + TrailingZeroSettings(SubSeq(s, 1, Len(s) - 1))

NormS(pre, zeros) ==
    LET k == TrailingZeroSettings(pre)
    IN [pre |-> SubSeq(pre, 1, Len(pre) - k), zeros |-> zeros + k]

SLen(s) == Len(s.pre) + s.zeros

\* the loop of SettingsFrame.Serialize over the settings from index i on
RECURSIVE WriteSettings(_, _, _, _)
WriteSettings(fr, offset, settings, i) ==
    IF i > Len(settings) THEN fr
    ELSE WriteSettings(
            Copy(Copy(fr, offset, Bs(PutUint16(settings[i].ID))),
                 offset + 2, Bs(PutUint32(settings[i].Value))),
            offset + 6, settings, i + 1)

SettingsSerialize(f) ==
    LET size == SLen(f.Settings)
        g == [f EXCEPT !.H.Length = size * 6]
        header == FrameHeaderSerialize(g.H)
        offset == Len(header)
        frame0 == Copy(Make(offset + size * 6), 0, Bs(header))
    IN Ok(WriteSettings(frame0, offset, f.Settings.pre, 1), g)

\* the loop of ParseSettingsFrame: settings i .. n-1 read from the payload
RECURSIVE ReadSettings(_, _, _)
ReadSettings(p, i, n) ==
    IF i >= n THEN <<>>
    ELSE << Setting(Uint16(BSeq(p, i * 6, i * 6 + 2)),
                    Uint32(BSeq(p, i * 6 + 2, i * 6 + 6))) >>
         \o ReadSettings(p, i + 1, n)

ParseSettingsFrame(header, p) ==
    IF header.StreamID # Zero32 THEN Err
    ELSE IF BLen(p) % 6 # 0 THEN Err
    ELSE
    LET n == BLen(p) \div 6
        \* settings beyond the last nonzero payload byte are all zero
        k == Min(n, (Len(p.pre) + 5) \div 6)
    IN Parsed([H |-> header,
               Settings |-> NormS(ReadSettings(p, 0, k), n - k)])

(* ------------------------------ PingFrame ------------------------------ *)
PingSerialize(f) ==
    IF f.H.StreamID # Zero32 THEN Err
    ELSE
    LET g == [f EXCEPT !.H.Length = 8]
        header == FrameHeaderSerialize(g.H)
        offset == Len(header)
        frame0 == Copy(Make(offset + 8), 0, Bs(header))
    IN Ok(Copy(frame0, offset, Bs(f.Data)), g)

ParsePingFrame(header, p) ==
    IF header.Type # FramePing THEN Err
    ELSE IF header.StreamID # Zero32 THEN Err
    ELSE IF BLen(p) # 8 THEN Err
    ELSE Parsed([H |-> header, Data |-> BSeq(p, 0, 8)])

(* -------------------------- WindowUpdateFrame -------------------------- *)
\* WindowUpdateFrame.Serialize with the range check made on the masked
\* increment: a value above 0x7FFFFFFF is masked instead of rejected
WindowUpdateSerialize_MaskFirst(f) ==
    IF Mask31(f.WindowSizeIncrement) = Zero32
    THEN Err
    ELSE
    LET g == [f EXCEPT !.H.Length = 4]
        header == FrameHeaderSerialize(g.H)
        offset == Len(header)
        frame0 == Copy(Make(offset + 4), 0, Bs(header))
    IN Ok(Copy(frame0, offset,
               Bs(PutUint32(Mask31(f.WindowSizeIncrement)))), g)

WindowUpdateSerialize(f) ==
    IF f.WindowSizeIncrement = Zero32 \/ TopBitSet(f.WindowSizeIncrement)
    THEN Err
    ELSE
    LET g == [f EXCEPT !.H.Length = 4]
        header == FrameHeaderSerialize(g.H)
        offset == Len(header)
        frame0 == Copy(Make(offset + 4), 0, Bs(header))
    IN Ok(Copy(frame0, offset,
               Bs(PutUint32(Mask31(f.WindowSizeIncrement)))), g)

ParseWindowUpdateFrame(header, p) ==
    IF BLen(p) < 4 THEN Err
    ELSE IF header.Type # FrameWindowUpdate THEN Err
    ELSE IF header.Length # 4 THEN Err
    ELSE
    LET increment == Mask31(Uint32(BSeq(p, 0, 4)))
    IN IF increment = Zero32 THEN Err
       ELSE Parsed([H |-> header, WindowSizeIncrement |-> increment])

(* --------------------------- RSTStreamFrame ---------------------------- *)
RSTStreamSerialize(f) ==
    IF f.ErrorCode = Zero32 THEN Err
    ELSE
    LET g == [f EXCEPT !.H.Length = 4]
        header == FrameHeaderSerialize(g.H)
        offset == Len(header)
        frame0 == Copy(Make(offset + 4), 0, Bs(header))
    IN Ok(Copy(frame0, offset, Bs(PutUint32(f.ErrorCode))), g)

ParseRSTStreamFrame(header, p) ==
    IF BLen(p) < 4 THEN Err
    ELSE IF header.Type # FrameRSTStream THEN Err
    ELSE IF header.Length # 4 THEN Err
    ELSE Parsed([H |-> header, ErrorCode |-> Uint32(BSeq(p, 0, 4))])

(* ----------------------------- GoAwayFrame ----------------------------- *)
GoAwaySerialize(f) ==
    IF f.H.StreamID # Zero32 THEN Err
    ELSE
    LET g == [f EXCEPT !.H.Length = 8 + BLen(f.DebugData)]
        header == FrameHeaderSerialize(g.H)
        off0 == Len(header)
        frame0 == Copy(Make(off0 + g.H.Length), 0, Bs(header))
        frame1 == Copy(frame0, off0, Bs(PutUint32(Mask31(f.LastStreamID))))
        off1 == off0 + 4
    IN
    \* frame[offset+4:offset+8] with offset already advanced past the
    \* last stream id: the slice bound is checked against cap(frame)
    IF off1 + 8 > BLen(frame1) THEN Panic
    ELSE
    LET frame2 == Copy(frame1, off1 + 4, Bs(PutUint32(f.ErrorCode)))
        off2 == off1 + 4
    IN Ok(Copy(frame2, off2, f.DebugData), g)

\* The set of outcomes of ParseGoAwayFrame.  sp holds the bytes of the
\* payload's backing array beyond len(payload), so cap(payload) is
\* len(payload) + Len(sp).  With header.Length < 8 the uint32 subtraction
\* header.Length-8 wraps to 2^32-8+header.Length: make() then either
\* returns that many zero bytes, panics (len out of range, 32-bit int) or
\* the runtime dies out of memory.
ParseGoAwayFrame(header, p, sp) ==
    IF BLen(p) < 8 THEN {Err}
    ELSE IF header.Type # FrameGoWay THEN {Err}
    ELSE IF header.StreamID # Zero32 THEN {Err}
    ELSE
    LET lastStreamID == Mask31(Uint32(BSeq(p, 0, 4)))
        errorCode == Uint32(BSeq(p, 4, 8))
        backing == BCat(p, Bs(sp))
    IN
    IF header.Length < 8
    THEN { Panic,
           [status |-> "fatal"],
           [status |-> "okHuge",
            frame |-> [H |-> header, LastStreamID |-> lastStreamID,
                       ErrorCode |-> errorCode],
            DebugLen |-> U32(1, Low31 - 7 + header.Length)] }
    ELSE IF header.Length > 8 /\ header.Length > BLen(backing) THEN {Panic}
    ELSE {Parsed([H |-> header,
                  LastStreamID |-> lastStreamID,
                  ErrorCode |-> errorCode,
                  DebugData |-> BSlice(backing, 8, header.Length)])}

(* ------------------------ ownership of the bytes ----------------------- *)
\* The byte content of a returned frame either lives in memory of its own
\* or is a window [off, off+len) of the payload buffer handed to the parser.
Owned == [shared |-> FALSE]
Window(off, len) == [shared |-> TRUE, off |-> off, len |-> len]

\* ParseHeadersFrame: frame.HeaderBlock = payload[offset : offset+length],
\* a slice expression, which shares the payload's backing array
HeaderBlockView(header, p) ==
    LET off == (IF hasPad(header.Flags) THEN 1 ELSE 0)
               + (IF hasPriority(header.Flags) THEN 5 ELSE 0)
        PadLen == IF hasPad(header.Flags) THEN BAt(p, 0) ELSE 0
    IN Window(off, BLen(p) - off - PadLen)

\* where the content of the frame returned by the parser of variant k lives:
\* ParseDataFrame and ParseGoAwayFrame make() a new slice and copy() into
\* it, ParsePingFrame copies into the frame's array, the other parsers
\* decode integers
ViewOf(k, h, p) ==
    CASE k = "Headers" -> HeaderBlockView(h, p)
      [] k = "Data" -> Owned
      [] k = "GoAway" -> Owned
      [] k = "Ping" -> Owned
      [] k \in {"Settings", "WindowUpdate", "RSTStream"} -> Owned

(* ------------------------------ inputs --------------------------------- *)
Bytes == {0, 1, 255}
PadLens == {0, 2}
\* byte strings of at most n bytes
RECURSIVE SeqsUpTo(_, _)
SeqsUpTo(S, n) ==
    IF n = 0 THEN {<<>>}
    ELSE LET T == SeqsUpTo(S, n - 1)
         IN T \cup {Append(t, x) : t \in {u \in T : Len(u) = n - 1}, x \in S}
ByteStrings == SeqsUpTo(Bytes, MaxLen)
\* lengths of the zero tail of a caller's slice: none, or enough to bring
\* the payload to the 24-bit ceiling
ZeroRuns == {0, MaxU24 - 5}
Slices == {Norm(s, z) : s \in ByteStrings, z \in ZeroRuns}
U32Vals == {Zero32, U32(0, 1), U32(0, Low31), U32(1, 0), U32(1, 1)}
U31Vals == {Zero32, U32(0, 5), U32(0, Low31)}
StreamIDs == {Zero32, U32(0, 1), U32(1, 1)}
Lengths == {0, 5}
FlagSets == {0, FlagPadded, FlagPriority, FlagPadded + FlagPriority}
TypesFor(t) == {t, (t + 1) % 10}
Headers(t, flags) ==
    {FrameHeader(l, ty, fl, id) :
        l \in Lengths, ty \in TypesFor(t), fl \in flags, id \in StreamIDs}

DataFrames ==
    {[H |-> h, PadLen |-> pl, Data |-> d] :
        h \in Headers(FrameData, {0, FlagPadded}), pl \in PadLens, d \in Slices}
HeadersFrames ==
    {[H |-> h, PadLen |-> pl, Exclusive |-> e, StreamDependency |-> dep,
      Weight |-> w, HeaderBlock |-> hb] :
        h \in Headers(FrameHeaders, FlagSets), pl \in PadLens,
        e \in BOOLEAN, dep \in U31Vals, w \in {0, 7}, hb \in Slices}
SettingVals ==
    {ZeroSetting, Setting(1, U32(0, 3)), Setting(65535, U32(1, 1))}
SettingRuns == {0, MaxU24 \div 6 + 1}
SettingLists ==
    {NormS(s, z) : s \in SeqsUpTo(SettingVals, MaxSettings), z \in SettingRuns}
SettingsFrames ==
    {[H |-> h, Settings |-> s] :
        h \in Headers(FrameSettings, {0}), s \in SettingLists}
PingDatas == {<<0, 0, 0, 0, 0, 0, 0, 0>>, <<1, 2, 3, 4, 5, 6, 7, 8>>,
              <<255, 0, 0, 0, 0, 0, 0, 0>>}
PingFrames ==
    {[H |-> h, Data |-> d] : h \in Headers(FramePing, {0}), d \in PingDatas}
WindowUpdateFrames ==
    {[H |-> h, WindowSizeIncrement |-> w] :
        h \in Headers(FrameWindowUpdate, {0}), w \in U32Vals}
RSTStreamFrames ==
    {[H |-> h, ErrorCode |-> e] :
        h \in Headers(FrameRSTStream, {0}), e \in U32Vals}
GoAwayFrames ==
    {[H |-> h, LastStreamID |-> l, ErrorCode |-> e, DebugData |-> d] :
        h \in Headers(FrameGoWay, {0}),
        l \in {Zero32, U32(0, 3), U32(1, 3)},
        e \in {Zero32, U32(0, 2), U32(1, 2)},
        d \in Slices \cup {Bs(<<1, 2, 3, 4>>), Bs(<<1, 2, 3, 4, 5>>)}}

\* headers and payloads handed directly to the parsers
RawLengths == {0, 4, 8, 9, 11}
RawHeaders(t, flags) ==
    {FrameHeader(l, ty, fl, id) :
        l \in RawLengths, ty \in TypesFor(t), fl \in flags,
        id \in {Zero32, U32(0, 1)}}
PrioBlocks == {PutUint32(d) \o <<w>> : d \in {U32(0, 5), U32(1, 0)}, w \in {7}}
PadBytes == {<<0>>, <<1>>, <<3>>}
PaddedPayloads ==
    {Bs(a \o b \o c) : a \in {<<>>} \cup PadBytes,
                       b \in {<<>>} \cup PrioBlocks, c \in ByteStrings}
RECURSIVE SettingsBytes(_)
SettingsBytes(s) ==
    IF s = <<>> THEN <<>>
    ELSE PutUint16(s[1].ID) \o PutUint32(s[1].Value) \o SettingsBytes(Tail(s))
SettingsPayloads ==
    {Bs(SettingsBytes(s) \o x) :
        s \in SeqsUpTo(SettingVals, MaxSettings), x \in {<<>>, <<0>>, <<9>>}}
PingPayloads ==
    {Bs(d) : d \in PingDatas} \cup {Bs(<<1, 2, 3, 4, 5, 6, 7>>),
                                    Bs(<<1, 2, 3, 4, 5, 6, 7, 8, 9>>)}
WordPayloads ==
    {Bs(PutUint32(v) \o x) : v \in U32Vals, x \in {<<>>, <<9>>}}
        \cup {Bs(<<0, 0, 1>>), Bs(<<>>)}
GoAwayPayloads ==
    {Bs(PutUint32(l) \o PutUint32(e) \o d) :
        l \in {U32(0, 3), U32(1, 3)}, e \in {Zero32, U32(1, 2)},
        d \in ByteStrings} \cup {Bs(<<0, 0, 0, 3, 0, 0, 2>>)}
Spares == {<<>>, <<9>>}

\* headers handed to FrameHeader.Serialize and bytes to ParseFrameHeader
HeaderLengths == {0, 5, MaxU24, MaxU24 + 1, MaxU24 + 262, Low31}
HeaderInputs ==
    {FrameHeader(l, ty, fl, id) :
        l \in HeaderLengths, ty \in {0, 9, 255}, fl \in {0, 37, 255},
        id \in U32Vals}
HeaderBytes == {<<1, 2, 3, 4, 5, 129, 0, 0, 7, 9>>,
                <<255, 255, 255, 255, 255, 255, 255, 255, 255, 255>>,
                <<0, 0, 0, 0, 0, 0, 0, 0, 0, 0>>}
HeaderDatas == {Bs(SubSeq(b, 1, n)) : b \in HeaderBytes, n \in 0..10}

(* --------------------------- the calls --------------------------------- *)
Init ==
    /\ pc = "idle"
    /\ kind = "none"
    /\ frame = None
    /\ out = None
    /\ hdr = None
    /\ payload = Make(0)
    /\ spare = <<>>
    /\ res = None
    /\ alias = Owned

\* a caller builds the frame f and calls f.Serialize()
Serialized(k, f, r) ==
    /\ pc' = "serialized"
    /\ kind' = k
    /\ frame' = f
    /\ out' = r
    /\ UNCHANGED <<hdr, payload, spare, res, alias>>

SerializeData ==
    /\ pc = "idle"
    /\ \E f \in DataFrames :
          Serialized("Data", f, DataSerialize(f))
SerializeHeaders ==
    /\ pc = "idle"
    /\ \E f \in HeadersFrames :
          Serialized("Headers", f, HeadersSerialize(f))
SerializeSettings ==
    /\ pc = "idle"
    /\ \E f \in SettingsFrames :
          Serialized("Settings", f, SettingsSerialize(f))
SerializePing ==
    /\ pc = "idle"
    /\ \E f \in PingFrames :
          Serialized("Ping", f, PingSerialize(f))
SerializeWindowUpdate ==
    /\ pc = "idle"
    /\ \E f \in WindowUpdateFrames :
          Serialized("WindowUpdate", f, WindowUpdateSerialize(f))
SerializeRSTStream ==
    /\ pc = "idle"
    /\ \E f \in RSTStreamFrames :
          Serialized("RSTStream", f, RSTStreamSerialize(f))
SerializeGoAway ==
    /\ pc = "idle"
    /\ \E f \in GoAwayFrames :
          Serialized("GoAway", f, GoAwaySerialize(f))

\* the outcomes of the parser of variant k on header h and payload p
ParseAs(k, h, p, sp) ==
    CASE k = "Data" -> {ParseDataFrame(h, p)}
      [] k = "Headers" -> {ParseHeadersFrame(h, p)}
      [] k = "Settings" -> {ParseSettingsFrame(h, p)}
      [] k = "Ping" -> {ParsePingFrame(h, p)}
      [] k = "WindowUpdate" -> {ParseWindowUpdateFrame(h, p)}
      [] k = "RSTStream" -> {ParseRSTStreamFrame(h, p)}
      [] k = "GoAway" -> ParseGoAwayFrame(h, p, sp)

\* the receiver of a serialized frame: the first 9 bytes go to
\* ParseFrameHeader, the rest to the parser of the frame's variant
ParseOutput ==
    /\ pc = "serialized"
    /\ out.status = "ok"
    /\ LET h == ParseFrameHeader(BSlice(out.bytes, 0, 9))
           p == BSlice(out.bytes, 9, BLen(out.bytes))
       IN /\ hdr' = h.frame
          /\ payload' = p
          /\ spare' = <<>>
          /\ \E r \in ParseAs(kind, h.frame, p, <<>>) :
                /\ res' = r
                /\ alias' = IF r.status = "ok" THEN ViewOf(kind, h.frame, p)
                            ELSE Owned
    /\ pc' = "roundtrip"
    /\ UNCHANGED <<kind, frame, out>>

\* a caller hands header h and payload p to the parser of variant k
ParsedRaw(k, h, p, sp) ==
    /\ pc' = "parsed"
    /\ kind' = k
    /\ hdr' = h
    /\ payload' = p
    /\ spare' = sp
    /\ \E r \in ParseAs(k, h, p, sp) :
          /\ res' = r
          /\ alias' = IF r.status = "ok" THEN ViewOf(k, h, p) ELSE Owned
    /\ UNCHANGED <<frame, out>>

ParseData ==
    /\ pc = "idle"
    /\ \E h \in RawHeaders(FrameData, {0, FlagPadded}), p \in PaddedPayloads :
          ParsedRaw("Data", h, p, <<>>)
ParseHeaders ==
    /\ pc = "idle"
    /\ \E h \in RawHeaders(FrameHeaders, FlagSets), p \in PaddedPayloads :
          ParsedRaw("Headers", h, p, <<>>)
ParseSettings ==
    /\ pc = "idle"
    /\ \E h \in RawHeaders(FrameSettings, {0}), p \in SettingsPayloads :
          ParsedRaw("Settings", h, p, <<>>)
ParsePing ==
    /\ pc = "idle"
    /\ \E h \in RawHeaders(FramePing, {0}), p \in PingPayloads :
          ParsedRaw("Ping", h, p, <<>>)
ParseWindowUpdate ==
    /\ pc = "idle"
    /\ \E h \in RawHeaders(FrameWindowUpdate, {0}), p \in WordPayloads :
          ParsedRaw("WindowUpdate", h, p, <<>>)
ParseRSTStream ==
    /\ pc = "idle"
    /\ \E h \in RawHeaders(FrameRSTStream, {0}), p \in WordPayloads :
          ParsedRaw("RSTStream", h, p, <<>>)
ParseGoAway ==
    /\ pc = "idle"
    /\ \E h \in RawHeaders(FrameGoWay, {0}), p \in GoAwayPayloads, sp \in Spares :
          ParsedRaw("GoAway", h, p, sp)

\* a caller calls h.Serialize() on a bare frame header
SerializeHeader ==
    /\ pc = "idle"
    /\ \E h \in HeaderInputs :
          /\ frame' = h
          /\ out' = Ok(Bs(FrameHeaderSerialize(h)), h)
    /\ pc' = "hserialized"
    /\ kind' = "Header"
    /\ UNCHANGED <<hdr, payload, spare, res, alias>>

\* the 9 bytes of a serialized header are handed to ParseFrameHeader
ParseHeaderOutput ==
    /\ pc = "hserialized"
    /\ payload' = out.bytes
    /\ res' = ParseFrameHeader(out.bytes)
    /\ pc' = "hroundtrip"
    /\ UNCHANGED <<kind, frame, out, hdr, spare, alias>>

\* a caller hands the bytes data to ParseFrameHeader
ParseHeaderRaw ==
    /\ pc = "idle"
    /\ \E data \in HeaderDatas :
          /\ payload' = data
          /\ res' = ParseFrameHeader(data)
    /\ pc' = "hparsed"
    /\ kind' = "Header"
    /\ UNCHANGED <<frame, out, hdr, spare, alias>>

\* bytes a caller writes over a payload buffer it reuses
OverwriteBytes == {85, 170}

\* After a parser returned a frame, the caller overwrites the payload
\* buffer it had passed in (its first bytes, with the byte b).  A frame
\* field that is a window of that buffer shows the new bytes; after a
\* round trip the buffer is the tail of the serialized frame.
Overwrite ==
    /\ pc \in {"parsed", "roundtrip"}
    /\ res.status = "ok"
    /\ BLen(payload) > 0
    /\ \E b \in OverwriteBytes :
          LET n == Min(BLen(payload), 6 + MaxLen)
              fill == Bs([i \in 1..n |-> b])
              p2 == Copy(payload, 0, fill)
          IN /\ payload' = p2
             /\ res' = IF alias.shared
                       THEN [res EXCEPT !.frame.HeaderBlock =
                               BSlice(p2, alias.off, alias.off + alias.len)]
                       ELSE res
             /\ out' = IF pc = "roundtrip"
                       THEN [out EXCEPT !.bytes = Copy(out.bytes, 9, fill)]
                       ELSE out
    /\ pc' = "overwritten"
    /\ UNCHANGED <<kind, frame, hdr, spare, alias>>

\* the call is over; the codec keeps no state between calls
Return ==
    /\ pc # "idle"
    /\ pc' = "idle"
    /\ kind' = "none"
    /\ frame' = None
    /\ out' = None
    /\ hdr' = None
    /\ payload' = Make(0)
    /\ spare' = <<>>
    /\ res' = None
    /\ alias' = Owned

Next ==
    \/ SerializeData \/ SerializeHeaders \/ SerializeSettings
    \/ SerializePing \/ SerializeWindowUpdate \/ SerializeRSTStream
    \/ SerializeGoAway
    \/ ParseOutput
    \/ ParseData \/ ParseHeaders \/ ParseSettings \/ ParsePing
    \/ ParseWindowUpdate \/ ParseRSTStream \/ ParseGoAway
    \/ SerializeHeader \/ ParseHeaderOutput \/ ParseHeaderRaw
    \/ Overwrite
    \/ Return

Spec == Init /\ [][Next]_vars

(* ----------------------- auxiliary definitions ------------------------- *)
TypeOf(k) ==
    CASE k = "Data" -> FrameData
      [] k = "Headers" -> FrameHeaders
      [] k = "Settings" -> FrameSettings
      [] k = "Ping" -> FramePing
      [] k = "WindowUpdate" -> FrameWindowUpdate
      [] k = "RSTStream" -> FrameRSTStream
      [] k = "GoAway" -> FrameGoWay

\* f.Serialize() for a frame f of variant k
SerializeAs(k, f) ==
    CASE k = "Data" -> DataSerialize(f)
      [] k = "Headers" -> HeadersSerialize(f)
      [] k = "Settings" -> SettingsSerialize(f)
      [] k = "Ping" -> PingSerialize(f)
      [] k = "WindowUpdate" -> WindowUpdateSerialize(f)
      [] k = "RSTStream" -> RSTStreamSerialize(f)
      [] k = "GoAway" -> GoAwaySerialize(f)

\* A frame as the data model describes it: the header carries the variant's
\* type code and a 31-bit stream id, 31-bit fields have a clear top bit, and
\* the optional sub-fields are zero when their flag is not set.
WellFormed(k, f) ==
    /\ f.H.Type = TypeOf(k)
    /\ f.H.StreamID.t = 0
    /\ k = "Data" => (hasPad(f.H.Flags) \/ f.PadLen = 0)
    /\ k = "Headers" =>
          /\ hasPad(f.H.Flags) \/ f.PadLen = 0
          /\ f.StreamDependency.t = 0
          /\ hasPriority(f.H.Flags) \/
               (~f.Exclusive /\ f.StreamDependency = Zero32 /\ f.Weight = 0)
    /\ k = "GoAway" => f.LastStreamID.t = 0

\* equal in every field except the header's Length
SameButLength(a, b) ==
    [a EXCEPT !.H.Length = 0] = [b EXCEPT !.H.Length = 0]

\* the payload of the serialized frame: the bytes after the 9-byte header
OutPayload == BSlice(out.bytes, 9, BLen(out.bytes))
\* the 24-bit length encoded in the first three bytes of the output
OutLength ==
    BAt(out.bytes, 0) * 65536 + BAt(out.bytes, 1) * 256 + BAt(out.bytes, 2)

(* ------------------------------ claims --------------------------------- *)

\* C1: round trip.  For every variant and every well-formed frame f that
\* Serialize accepts, parsing the 9-byte header of Serialize(f) with
\* ParseFrameHeader and the rest with the variant's parser succeeds and
\* returns a frame equal to f in every field except the header's Length.
C1_RoundTrip ==
    (pc = "roundtrip" /\ WellFormed(kind, frame)) =>
        /\ res.status = "ok"
        /\ SameButLength(res.frame, frame)

\* C2: HeadersFrame.Serialize of a frame with nonzero stream id (whose
\* payload fits 24 bits) yields a payload of len(header_block)
\* + (1 + pad_len if PADDED) + (5 if PRIORITY) bytes that holds the whole
\* header block after the pad-length byte and the priority block, followed
\* by pad_len zero bytes.
C2_HeadersPayload ==
    (pc = "serialized" /\ kind = "Headers" /\ frame.H.StreamID # Zero32) =>
        LET padded == hasPad(frame.H.Flags)
            off == (IF padded THEN 1 ELSE 0)
                   + (IF hasPriority(frame.H.Flags) THEN 5 ELSE 0)
            pad == IF padded THEN frame.PadLen ELSE 0
            n == off + BLen(frame.HeaderBlock) + pad
        IN n <= MaxU24 =>
            /\ out.status = "ok"
            /\ BLen(OutPayload) = n
            /\ padded => BAt(OutPayload, 0) = frame.PadLen
            /\ BSlice(OutPayload, off, n - pad) = frame.HeaderBlock
            /\ BSlice(OutPayload, n - pad, n) = Make(pad)

\* C3: GoAwayFrame.Serialize of a frame with stream id 0 and any debug data,
\* empty included, succeeds with 9 + 8 + len(debug_data) bytes: the last
\* stream id masked to 31 bits in payload bytes 0..3, the error code in
\* bytes 4..7, the debug data from byte 8 on; with empty debug data the
\* encoded length is 8.
C3_GoAwayLayout ==
    (pc = "serialized" /\ kind = "GoAway" /\ frame.H.StreamID = Zero32
     /\ 8 + BLen(frame.DebugData) <= MaxU24) =>
        /\ out.status = "ok"
        /\ BLen(out.bytes) = 9 + 8 + BLen(frame.DebugData)
        /\ BSeq(OutPayload, 0, 4) = PutUint32(Mask31(frame.LastStreamID))
        /\ BSeq(OutPayload, 4, 8) = PutUint32(frame.ErrorCode)
        /\ BSlice(OutPayload, 8, BLen(OutPayload)) = frame.DebugData
        /\ BLen(frame.DebugData) = 0 => OutLength = 8

\* C4: with PRIORITY set, HeadersFrame.Serialize writes the exclusive flag
\* as the top bit and the stream dependency as the low 31 bits of the
\* priority word, then the weight, and ParseHeadersFrame recovers the same
\* exclusive, stream_dependency and weight, for every dependency in
\* [0, 0x7FFFFFFF] and both values of exclusive.
C4_PriorityRoundTrip ==
    (pc = "roundtrip" /\ kind = "Headers" /\ hasPriority(frame.H.Flags)
     /\ frame.StreamDependency.t = 0) =>
        LET off == IF hasPad(frame.H.Flags) THEN 1 ELSE 0
        IN /\ BSeq(payload, off, off + 5) =
                PutUint32(U32(IF frame.Exclusive THEN 1 ELSE 0,
                              frame.StreamDependency.v)) \o <<frame.Weight>>
           /\ res.status = "ok"
           /\ res.frame.Exclusive = frame.Exclusive
           /\ res.frame.StreamDependency = frame.StreamDependency
           /\ res.frame.Weight = frame.Weight

\* C5: after every successful Serialize the 24-bit length in the first
\* three output bytes is the number of bytes after the 9-byte header, and
\* the output does not depend on the Length the caller had stored.
C5_LengthDerived ==
    (pc = "serialized" /\ out.status = "ok") =>
        /\ OutLength = BLen(out.bytes) - 9
        /\ \A l \in Lengths \cup {MaxU24} :
              LET o == SerializeAs(kind, [frame EXCEPT !.H.Length = l])
              IN o.status = "ok" /\ o.bytes = out.bytes

\* C6: for SETTINGS, PING and GOAWAY both Serialize and the parser fail
\* whenever the header's stream id is nonzero.
C6_StreamZeroRequired ==
    /\ (pc = "serialized" /\ kind \in {"Settings", "Ping", "GoAway"}
        /\ frame.H.StreamID # Zero32) => out.status = "err"
    /\ (pc = "parsed" /\ kind \in {"Settings", "Ping", "GoAway"}
        /\ hdr.StreamID # Zero32) => res.status = "err"

\* C7: every parser fails on a header whose Type is not the parser's frame
\* type code, for every payload.
C7_TypeMismatchRejected ==
    (pc = "parsed" /\ hdr.Type # TypeOf(kind)) => res.status = "err"

\* C8: every Serialize and every parser returns a result or an error on
\* every input; no call aborts on an index, a slice bound or an
\* allocation size.
C8_NoAbort ==
    /\ pc = "serialized" => out.status \in {"ok", "err"}
    /\ pc \in {"parsed", "roundtrip"} => res.status \in {"ok", "okHuge", "err"}

\* C9: ParseDataFrame and ParseHeadersFrame fail when the declared pad
\* length exceeds the payload left after the pad-length byte (and the
\* priority block); otherwise they succeed and the content is exactly the
\* payload from that offset up to len(payload) - pad_len.  A DATA frame
\* with PADDED set and pad_len 0 round-trips with its pad-length byte.
C9_PaddingChecked ==
    /\ (pc \in {"parsed", "roundtrip"} /\ kind \in {"Data", "Headers"}
        /\ (kind = "Data" => hdr.Type = FrameData)) =>
          LET padded == hasPad(hdr.Flags)
              prio == kind = "Headers" /\ hasPriority(hdr.Flags)
              off == (IF padded THEN 1 ELSE 0) + (IF prio THEN 5 ELSE 0)
              declared == ~padded \/ BLen(payload) >= 1
              padLen == IF padded /\ BLen(payload) >= 1
                        THEN BAt(payload, 0) ELSE 0
              content == IF kind = "Data" THEN res.frame.Data
                         ELSE res.frame.HeaderBlock
          IN IF ~declared \/ padLen > BLen(payload) - off
             THEN res.status = "err"
             ELSE /\ res.status = "ok"
                  /\ res.frame.PadLen = padLen
                  /\ content = BSlice(payload, off, BLen(payload) - padLen)
    /\ (pc = "roundtrip" /\ kind = "Data" /\ WellFormed(kind, frame)
        /\ hasPad(frame.H.Flags) /\ frame.PadLen = 0) =>
          /\ BLen(payload) = 1 + BLen(frame.Data)
          /\ BAt(payload, 0) = 0
          /\ res.status = "ok"
          /\ SameButLength(res.frame, frame)

\* a HEADERS payload with pad length, priority block, header block and
\* padding has been parsed, and a padded DATA frame has failed to parse
C9_Witness ==
    /\ pc = "parsed" /\ kind = "Headers"
    /\ hasPad(hdr.Flags) /\ hasPriority(hdr.Flags)
    /\ res.status = "ok"
    /\ res.frame.PadLen > 0
    /\ res.frame.HeaderBlock.pre # <<>>
    /\ BLen(res.frame.HeaderBlock) < BLen(payload) - 6

\* C10: WindowUpdateFrame.Serialize fails exactly when the increment is 0
\* or above 0x7FFFFFFF (checked before masking); ParseWindowUpdateFrame
\* fails when the increment masked to 31 bits is 0; every increment in
\* [1, 0x7FFFFFFF] of a WINDOW_UPDATE frame serializes and parses back to
\* the same value.
C10_WindowUpdateRange ==
    /\ (pc \in {"serialized", "roundtrip"} /\ kind = "WindowUpdate") =>
          (out.status = "err" <=>
              (frame.WindowSizeIncrement = Zero32
               \/ frame.WindowSizeIncrement.t = 1))
    /\ (pc = "serialized" /\ kind = "WindowUpdate" /\ out.status = "ok") =>
          BSeq(OutPayload, 0, 4) = PutUint32(frame.WindowSizeIncrement)
    /\ (pc = "parsed" /\ kind = "WindowUpdate" /\ BLen(payload) >= 4
        /\ Mask31(Uint32(BSeq(payload, 0, 4))) = Zero32) =>
          res.status = "err"
    /\ (pc = "roundtrip" /\ kind = "WindowUpdate"
        /\ frame.H.Type = FrameWindowUpdate) =>
          /\ res.status = "ok"
          /\ res.frame.WindowSizeIncrement = frame.WindowSizeIncrement

\* the increment 0x7FFFFFFF has been serialized and parsed back
C10_Witness ==
    /\ pc = "roundtrip" /\ kind = "WindowUpdate"
    /\ frame.WindowSizeIncrement = U32(0, Low31)
    /\ res.status = "ok"
    /\ res.frame.WindowSizeIncrement = U32(0, Low31)

\* C11: frame header codec.  For every header h, FrameHeader.Serialize
\* returns exactly 9 bytes whose reserved bit (top bit of byte 5) is 0, and
\* ParseFrameHeader of them returns h's type and flags, the stream id
\* h.stream_id & 0x7FFFFFFF and the length h.length & 0xFFFFFF;
\* ParseFrameHeader of fewer than 9 bytes fails.
C11_HeaderCodec ==
    /\ pc \in {"hserialized", "hroundtrip"} =>
          /\ BLen(out.bytes) = 9
          /\ BAt(out.bytes, 5) < 128
    /\ pc = "hroundtrip" =>
          /\ res.status = "ok"
          /\ res.frame.Type = frame.Type
          /\ res.frame.Flags = frame.Flags
          /\ res.frame.StreamID = U32(0, frame.StreamID.v)
          /\ res.frame.Length = frame.Length % (MaxU24 + 1)
    /\ (pc = "hparsed" /\ BLen(payload) < 9) => res.status = "err"

\* the header with stream id 0x80000001 and a length above 24 bits has
\* been serialized and parsed back with stream id 1
C11_Witness ==
    /\ pc = "hroundtrip"
    /\ frame.StreamID = U32(1, 1)
    /\ frame.Length > MaxU24
    /\ res.status = "ok"
    /\ res.frame.StreamID = U32(0, 1)

\* C12: every frame returned by a parser owns its byte content: overwriting
\* the payload buffer that was passed in changes no field of the returned
\* frame, for every variant.
C12_FrameOwnsBytes ==
    [][pc' = "overwritten" => res'.frame = res.frame]_vars

====
